---------------------------- MODULE Spec2Model ----------------------------
(***************************************************************************)
(* Model of the shopping recommendation service: the recommendation        *)
(* engine and its cold-start fallback (src/app.py), the Flask endpoint     *)
(* POST /recommend (src/app.py), and the JSON history file that app.py and *)
(* app_ui.py both read and rewrite.                                        *)
(*                                                                         *)
(* Units.  price is in cents, rate in tenths of a star, a cosine           *)
(* similarity in thousandths, and final_score in ten-thousandths, so that  *)
(*   0.6*similarity + 0.3*rate + 0.1*ln(1+review_count)                    *)
(* is the integer 6*sim + 300*rate + Log1pMilli(review_count).             *)
(***************************************************************************)
EXTENDS Integers, Sequences, FiniteSets, TLC

VARIABLES
    catalog,    \* the rows of products.json, as read at import time
    df,         \* the module global df (src/app.py:25-31)
    pc,         \* "idle", or "done" once a call has produced its observation
    call,       \* the inputs of the call that ran last
    engine,     \* what recommend_products did in that call
    ret,        \* what the called function returned or raised
    response,   \* the HTTP response of the last request
    file,       \* the content of recommendations.json, or Absent
    saved,      \* the entries whose save_recommendations call has completed
    loaded,     \* the outcome of the last load_existing_recommendations
    hist,       \* bookkeeping of the history scenario
    writer      \* the two concurrent writers of the history file

vars == <<catalog, df, pc, call, engine, ret, response, file, saved, loaded, hist, writer>>

engineVars == <<catalog, df, pc, call, engine, ret, response>>
historyVars == <<file, saved, loaded, hist>>

(***************************************************************************)
(* Bounds of the model.                                                    *)
(***************************************************************************)
MaxCatalog == 3
MaxTopN == 2
MaxSaves == 2
MaxPrior == 1

(***************************************************************************)
(* Python / JSON values, tagged with their type.                           *)
(***************************************************************************)
None == [t |-> "none"]
Str(s) == [t |-> "str", s |-> s]
Num(n) == [t |-> "num", n |-> n]
List(v) == [t |-> "list", v |-> v]
Dict(v) == [t |-> "dict", v |-> v]

\* Python truthiness, as used by `if category`, `if budget`, `not user_query`,
\* `if not recommendations`.
Truthy(x) ==
    CASE x.t = "none" -> FALSE
      [] x.t = "str" -> x.s # ""
      [] x.t = "num" -> x.n # 0
      [] x.t = "list" -> Len(x.v) > 0
      [] x.t = "dict" -> Len(x.v) > 0

\* str.lower() / Series.str.lower() on the category strings of the model.
Lower(s) ==
    CASE s = "Shoes" -> "shoes"
      [] s = "SHOES" -> "shoes"
      [] s = "BAGS" -> "bags"
      [] s = "Bags" -> "bags"
      [] OTHER -> s

(***************************************************************************)
(* The embedding provider (SentenceTransformer.encode): a fixed vector per *)
(* text.  The vectors have integer norms so that the cosine is exact.      *)
(***************************************************************************)
Zeros == <<0, 0>>

Encode(text) ==
    CASE text = "running shoes" -> <<1, 0>>
      [] text = "leather bag" -> <<0, 1>>
      [] text = "trail running shoe" -> <<4, 3>>
      [] text = "leather tote" -> <<3, 4>>
      [] text = "city sneaker" -> <<1, 0>>
      [] OTHER -> <<-1, 0>>

get_text_embedding(text) == Encode(text)

Dot(a, b) == a[1] * b[1] + a[2] * b[2]

Norm(a) == CHOOSE r \in 0..(Dot(a, a)) : r * r = Dot(a, a)

\* sklearn cosine_similarity: rows are normalised, a zero row stays zero.
cosine_similarity(a, b) ==
    IF Norm(a) = 0 \/ Norm(b) = 0 THEN 0
    ELSE (1000 * Dot(a, b)) \div (Norm(a) * Norm(b))

\* np.log1p on the review counts of the model, in thousandths.
Log1pMilli(n) ==
    CASE n = 0 -> 0
      [] n = 10 -> 2398
      [] n = 100 -> 4615
      [] n = 1000 -> 6909

(***************************************************************************)
(* The catalog.                                                            *)
(***************************************************************************)
Products ==
    { [title |-> "Trail Runner", description |-> Str("trail running shoe"),
       category |-> "shoes", price |-> 4999, rate |-> 40, review_count |-> 10],
      [title |-> "Trail Runner II", description |-> Str("trail running shoe"),
       category |-> "shoes", price |-> 5000, rate |-> 40, review_count |-> 10],
      [title |-> "City Sneaker", description |-> Str("city sneaker"),
       category |-> "Shoes", price |-> 20000, rate |-> 50, review_count |-> 1000],
      [title |-> "Leather Tote", description |-> Str("leather tote"),
       category |-> "Bags", price |-> 10000, rate |-> 40, review_count |-> 100],
      [title |-> "Mystery Box", description |-> None,
       category |-> "SHOES", price |-> 30000, rate |-> 45, review_count |-> 0] }

\* products.json: one to MaxCatalog distinct products, in any order.  (With no
\* row at all read_json gives a frame without columns and line 31 fails at import.)
Catalogs ==
    UNION { { c \in [1..n -> Products] : \A i, j \in 1..n : c[i] = c[j] => i = j }
            : n \in 1..MaxCatalog }

BaseColumns == {"title", "description", "category", "price", "rate", "review_count"}

\* df = pd.read_json(DATA_FILE); df["embedding"] = df["description"].apply(...)
LoadCatalog(products) ==
    [ rows |-> [ i \in DOMAIN products |->
                   [ title |-> products[i].title,
                     description |-> products[i].description,
                     category |-> products[i].category,
                     price |-> products[i].price,
                     rate |-> products[i].rate,
                     review_count |-> products[i].review_count,
                     embedding |-> IF products[i].description.t = "str"
                                   THEN Encode(products[i].description.s)
                                   ELSE Zeros ] ],
      columns |-> BaseColumns \cup {"embedding"},
      similarity_score |-> <<>>,
      final_score |-> <<>> ]

\* [["title", "price", "description", "rate", "review_count"]].to_dict("records")
Project(row) ==
    [ title |-> row.title, price |-> row.price, description |-> row.description,
      rate |-> row.rate, review_count |-> row.review_count ]


(***************************************************************************)
(* The intent extractor.  analyze_user_input either raises (the chat       *)
(* completion call fails) or hands back the message content of the         *)
(* completion.  Read from the response as it is (line 66) the content is   *)
(* text (kind "text"); lines 83-93 are written for a mapping with the keys *)
(* category, budget and features (kind "mapping"), which is what they get  *)
(* when the extractor is replaced by one that returns parsed output.       *)
(***************************************************************************)
ExtractedCategories == {None, Str(""), Str("Shoes"), Str("BAGS")}

ExtractedBudgets ==
    { None,
      List(<<Num(5000), Num(20000)>>),
      List(<<Num(0), Num(15000)>>),
      List(<<Num(5000)>>),
      List(<<Str("50"), Str("200")>>),
      Str("50-200 USD") }

\* a category no product has, a category that is no string, a feature list
OtherMappings ==
    { [kind |-> "mapping", category |-> Str("toys"), budget |-> None, features |-> None],
      [kind |-> "mapping", category |-> Num(3), budget |-> None, features |-> None],
      [kind |-> "mapping", category |-> None, budget |-> None,
       features |-> List(<<Str("waterproof")>>)] }

analyze_user_input ==
    { [kind |-> k, category |-> None, budget |-> None, features |-> None]
        : k \in {"raise", "text"} }
    \cup
    { [kind |-> "mapping", category |-> c, budget |-> b, features |-> None]
        : c \in ExtractedCategories, b \in ExtractedBudgets }
    \cup OtherMappings

Queries == {"running shoes", "leather bag"}

TopNs == 1..MaxTopN

(***************************************************************************)
(* recommend_products (src/app.py:72-114).                                 *)
(***************************************************************************)
Indices(d) == [i \in 1..Len(d.rows) |-> i]

Range(s) == { s[i] : i \in DOMAIN s }

TakeHead(s, n) == SubSeq(s, 1, IF n < Len(s) THEN n ELSE Len(s))

\* df[df["category"].str.lower() == category.lower()]
CategoryFilter(d, category) ==
    SelectSeq(Indices(d), LAMBDA i : Lower(d.rows[i].category) = Lower(category))

\* mutant of BudgetFilter: the upper bound is exclusive
BudgetFilterExclusive(d, idx, min_price, max_price) ==
    SelectSeq(idx, LAMBDA i : d.rows[i].price >= min_price /\ d.rows[i].price < max_price)

\* filtered_df[(filtered_df["price"] >= min_price) & (filtered_df["price"] <= max_price)]
BudgetFilter(d, idx, min_price, max_price) ==
    SelectSeq(idx, LAMBDA i : d.rows[i].price >= min_price /\ d.rows[i].price <= max_price)

\* if budget and isinstance(budget, list) and len(budget) == 2
BudgetApplies(budget) ==
    Truthy(budget) /\ budget.t = "list" /\ Len(budget.v) = 2

\* similarity_score of row i for the query embedding
SimilarityScore(d, query_embedding, i) ==
    cosine_similarity(query_embedding, d.rows[i].embedding)

\* similarity_score * 0.6 + rate * 0.3 + log1p(review_count) * 0.1
FinalScore(d, query_embedding, i) ==
    6 * SimilarityScore(d, query_embedding, i)
    + 300 * d.rows[i].rate
    + Log1pMilli(d.rows[i].review_count)

\* mutant of SortByFinalScore: ascending=False is left out
SortByFinalScoreAscending(idx, score) ==
    { [k \in 1..Len(idx) |-> idx[p[k]]] :
        p \in { q \in [1..Len(idx) -> 1..Len(idx)] :
                  /\ \A a, b \in 1..Len(idx) : q[a] = q[b] => a = b
                  /\ \A k \in 1..(Len(idx) - 1) : score[idx[q[k]]] <= score[idx[q[k + 1]]] } }

\* sort_values(by="final_score", ascending=False): the default quicksort is
\* not stable, so rows of equal score may come out in any order.
SortByFinalScore(idx, score) ==
    { [k \in 1..Len(idx) |-> idx[p[k]]] :
        p \in { q \in [1..Len(idx) -> 1..Len(idx)] :
                  /\ \A a, b \in 1..Len(idx) : q[a] = q[b] => a = b
                  /\ \A k \in 1..(Len(idx) - 1) : score[idx[q[k]]] >= score[idx[q[k + 1]]] } }

EngineRaise(d, err) ==
    [ raised |-> TRUE, error |-> err, result |-> <<>>, df |-> d, filtered |-> FALSE,
      candidates |-> <<>>, ranked |-> <<>>, final_score |-> <<>> ]

\* Steps 3-5 on the candidate rows idx; aliased says that filtered_df is df itself.
RankCandidates(d, user_query, top_n, idx, aliased, embedOK) ==
    IF ~embedOK THEN { EngineRaise(d, "EmbeddingError") }
    ELSE
      LET query_embedding == get_text_embedding(user_query)
          sim == [i \in 1..Len(d.rows) |-> SimilarityScore(d, query_embedding, i)]
          fin == [i \in 1..Len(d.rows) |-> FinalScore(d, query_embedding, i)]
          after == IF aliased
                   THEN [d EXCEPT !.columns = @ \cup {"similarity_score", "final_score"},
                                  !.similarity_score = sim,
                                  !.final_score = fin]
                   ELSE d
      IN { [ raised |-> FALSE, error |-> "", df |-> after, filtered |-> TRUE,
             candidates |-> idx, ranked |-> order, final_score |-> fin,
             result |-> [k \in 1..Len(TakeHead(order, top_n)) |-> Project(d.rows[order[k]])] ]
           : order \in SortByFinalScore(idx, fin) }

recommend_products(d, user_query, top_n, extracted_info, embedOK) ==
    IF extracted_info.kind = "raise" THEN { EngineRaise(d, "APIError") }
    ELSE IF extracted_info.kind = "text" THEN { EngineRaise(d, "AttributeError") }
    ELSE
      LET category == extracted_info.category
          budget == extracted_info.budget
      IN IF Truthy(category) /\ category.t # "str"
         THEN { EngineRaise(d, "AttributeError") }
         ELSE
           LET byCategory == IF Truthy(category)
                             THEN CategoryFilter(d, category.s)
                             ELSE Indices(d)
           IN IF ~BudgetApplies(budget)
              THEN RankCandidates(d, user_query, top_n, byCategory,
                                  ~Truthy(category), embedOK)
              ELSE IF budget.v[1].t = "num" /\ budget.v[2].t = "num"
              THEN RankCandidates(d, user_query, top_n,
                                  BudgetFilter(d, byCategory, budget.v[1].n, budget.v[2].n),
                                  FALSE, embedOK)
              \* a price column compared with a string: TypeError when there is a
              \* row to compare; on an empty frame the comparison may pass
              ELSE { EngineRaise(d, "TypeError") }
                   \cup (IF Len(byCategory) = 0
                         THEN RankCandidates(d, user_query, top_n, <<>>, FALSE, embedOK)
                         ELSE {})

(***************************************************************************)
(* recommend_products_with_fallback (src/app.py:121-141).                  *)
(***************************************************************************)
\* mutant of PopularGeq: the review_count tiebreak is left out
PopularGeqByRateOnly(a, b) == a.rate >= b.rate

\* row a sorts before or with row b under by=["rate", "review_count"], descending
PopularGeq(a, b) ==
    \/ a.rate > b.rate
    \/ a.rate = b.rate /\ a.review_count >= b.review_count

\* insert row index i behind every row that is at least as popular (lexsort is stable)
RECURSIVE InsertPopular(_, _, _)
InsertPopular(d, sorted, i) ==
    IF sorted = <<>> THEN <<i>>
    ELSE IF PopularGeq(d.rows[Head(sorted)], d.rows[i])
         THEN <<Head(sorted)>> \o InsertPopular(d, Tail(sorted), i)
         ELSE <<i>> \o sorted

RECURSIVE SortPopular(_, _)
SortPopular(d, n) ==
    IF n = 0 THEN <<>> ELSE InsertPopular(d, SortPopular(d, n - 1), n)

\* df.sort_values(by=["rate", "review_count"], ascending=False).head(top_n)[...]
PopularFallback(d, top_n) ==
    LET order == TakeHead(SortPopular(d, Len(d.rows)), top_n)
    IN [k \in 1..Len(order) |-> Project(d.rows[order[k]])]

\* mutant of recommend_products_with_fallback: the fallback is taken on an
\* exception only, an empty result is passed on
FallbackOnExceptionOnly(d, user_query, top_n, extracted_info, embedOK) ==
    { [ engine |-> o,
        fallback |-> o.raised,
        value |-> IF o.raised THEN PopularFallback(o.df, top_n) ELSE o.result ]
      : o \in recommend_products(d, user_query, top_n, extracted_info, embedOK) }

recommend_products_with_fallback(d, user_query, top_n, extracted_info, embedOK) ==
    { [ engine |-> o,
        fallback |-> o.raised \/ Len(o.result) = 0,
        value |-> IF o.raised \/ Len(o.result) = 0
                  THEN PopularFallback(o.df, top_n)
                  ELSE o.result ]
      : o \in recommend_products(d, user_query, top_n, extracted_info, embedOK) }


(***************************************************************************)
(* Observations of a call, and their initial values.                       *)
(***************************************************************************)
NoInfo == [kind |-> "none", category |-> None, budget |-> None, features |-> None]

NoCall ==
    [ fn |-> "none", user_query |-> "", top_n |-> 0, extracted_info |-> NoInfo,
      embedOK |-> TRUE, body |-> None, before |-> None ]

NoEngine == [ran |-> FALSE, out |-> None]

NoRet == [kind |-> "none", fallback |-> FALSE, value |-> <<>>]

NoResponse == [status |-> 0, error |-> "", query |-> None, recommendations |-> <<>>]

DefaultTopN == 5

\* request.json of the requests of the model: JSON objects without a query, with
\* a null, an empty and a non-empty query, and JSON values that are no object.
Bodies ==
    { Dict(<<>>), Dict(<< <<"query", None>> >>), Dict(<< <<"query", Str("")>> >>),
      List(<<>>), None }
    \cup { Dict(<< <<"query", Str(q)>> >>) : q \in Queries }

\* dict.get(key, default)
Get(d, key, default) ==
    IF \E i \in DOMAIN d.v : d.v[i][1] = key
    THEN d.v[CHOOSE i \in DOMAIN d.v :
                 d.v[i][1] = key /\ \A j \in DOMAIN d.v : d.v[j][1] = key => j <= i][2]
    ELSE default

(***************************************************************************)
(* The operations of the engine.                                           *)
(***************************************************************************)
\* a direct call of recommend_products(user_query, top_n)
CallRecommendProducts ==
    /\ pc = "idle"
    /\ \E q \in Queries, n \in TopNs, info \in analyze_user_input, ok \in BOOLEAN :
         \E o \in recommend_products(df, q, n, info, ok) :
           /\ call' = [ fn |-> "recommend_products", user_query |-> q, top_n |-> n,
                        extracted_info |-> info, embedOK |-> ok, body |-> None,
                        before |-> df ]
           /\ engine' = [ran |-> TRUE, out |-> o]
           /\ ret' = [ kind |-> IF o.raised THEN "raise" ELSE "return",
                       fallback |-> FALSE, value |-> o.result ]
           /\ df' = o.df
    /\ pc' = "done"
    /\ response' = NoResponse
    /\ UNCHANGED <<catalog, file, saved, loaded, hist, writer>>

\* a direct call of recommend_products_with_fallback(user_query, top_n)
CallRecommendWithFallback ==
    /\ pc = "idle"
    /\ \E q \in Queries, n \in TopNs, info \in analyze_user_input, ok \in BOOLEAN :
         \E r \in recommend_products_with_fallback(df, q, n, info, ok) :
           /\ call' = [ fn |-> "recommend_products_with_fallback", user_query |-> q,
                        top_n |-> n, extracted_info |-> info, embedOK |-> ok,
                        body |-> None, before |-> df ]
           /\ engine' = [ran |-> TRUE, out |-> r.engine]
           /\ ret' = [kind |-> "return", fallback |-> r.fallback, value |-> r.value]
           /\ df' = r.engine.df
    /\ pc' = "done"
    /\ response' = NoResponse
    /\ UNCHANGED <<catalog, file, saved, loaded, hist, writer>>

\* POST /recommend (src/app.py:177-187)
recommend ==
    /\ pc = "idle"
    /\ \E data \in Bodies :
         \/ \* data.get on a JSON value that is no object: AttributeError, answered 500
            /\ data.t # "dict"
            /\ call' = [NoCall EXCEPT !.fn = "recommend", !.body = data, !.before = df]
            /\ engine' = NoEngine
            /\ ret' = [NoRet EXCEPT !.kind = "raise"]
            /\ response' = [NoResponse EXCEPT !.status = 500]
            /\ df' = df
         \/ \* if not user_query: 400
            /\ data.t = "dict"
            /\ ~Truthy(Get(data, "query", Str("")))
            /\ call' = [NoCall EXCEPT !.fn = "recommend", !.body = data, !.before = df]
            /\ engine' = NoEngine
            /\ ret' = NoRet
            /\ response' = [NoResponse EXCEPT !.status = 400, !.error = "No query provided"]
            /\ df' = df
         \/ /\ data.t = "dict"
            /\ Truthy(Get(data, "query", Str("")))
            /\ \E info \in analyze_user_input, ok \in BOOLEAN :
                 LET user_query == Get(data, "query", Str(""))
                 IN \E r \in recommend_products_with_fallback(df, user_query.s, DefaultTopN,
                                                              info, ok) :
                      /\ call' = [ fn |-> "recommend", user_query |-> user_query.s,
                                   top_n |-> DefaultTopN, extracted_info |-> info,
                                   embedOK |-> ok, body |-> data, before |-> df ]
                      /\ engine' = [ran |-> TRUE, out |-> r.engine]
                      /\ ret' = [kind |-> "return", fallback |-> r.fallback, value |-> r.value]
                      /\ response' = [ status |-> 200, error |-> "", query |-> user_query,
                                       recommendations |-> r.value ]
                      /\ df' = r.engine.df
    /\ pc' = "done"
    /\ UNCHANGED <<catalog, file, saved, loaded, hist, writer>>

\* GET / (src/app.py:172-175)
home ==
    /\ pc = "idle"
    /\ call' = [NoCall EXCEPT !.fn = "home", !.before = df]
    /\ engine' = NoEngine
    /\ ret' = NoRet
    /\ response' = [NoResponse EXCEPT !.status = 200, !.error = "API is running"]
    /\ pc' = "done"
    /\ UNCHANGED <<catalog, df, file, saved, loaded, hist, writer>>

\* the caller has its answer; the service waits for the next call
Return ==
    /\ pc = "done"
    /\ pc' = "idle"
    /\ call' = NoCall
    /\ engine' = NoEngine
    /\ ret' = NoRet
    /\ response' = NoResponse
    /\ UNCHANGED <<catalog, df, file, saved, loaded, hist, writer>>

(***************************************************************************)
(* The history file recommendations.json.  Its content is the sequence of  *)
(* JSON tokens a reader finds in it; json.dump writes the tokens of a      *)
(* value and json.load parses them back.                                   *)
(***************************************************************************)
Absent == [t |-> "absent"]

FileOf(tokens) == [t |-> "file", tokens |-> tokens]

P(c) == [k |-> "p", c |-> c]
TStr(s) == [k |-> "str", s |-> s]
TNum(n) == [k |-> "num", n |-> n]
TNull == [k |-> "null"]
\* bytes that are no UTF-8
TBad == [k |-> "bad"]

\* json.dump(data, file, ensure_ascii=False, indent=4), white space left out
RECURSIVE Dump(_), DumpItems(_), DumpMembers(_)
Dump(x) ==
    CASE x.t = "none" -> <<TNull>>
      [] x.t = "str" -> <<TStr(x.s)>>
      [] x.t = "num" -> <<TNum(x.n)>>
      [] x.t = "list" -> <<P("[")>> \o DumpItems(x.v) \o <<P("]")>>
      [] x.t = "dict" -> <<P("{")>> \o DumpMembers(x.v) \o <<P("}")>>

DumpItems(v) ==
    IF Len(v) = 0 THEN <<>>
    ELSE IF Len(v) = 1 THEN Dump(v[1])
    ELSE Dump(v[1]) \o <<P(",")>> \o DumpItems(Tail(v))

DumpMembers(v) ==
    IF Len(v) = 0 THEN <<>>
    ELSE IF Len(v) = 1 THEN <<TStr(v[1][1]), P(":")>> \o Dump(v[1][2])
    ELSE <<TStr(v[1][1]), P(":")>> \o Dump(v[1][2]) \o <<P(",")>> \o DumpMembers(Tail(v))

IsP(tok, c) == tok.k = "p" /\ tok.c = c

ParseFail == [ok |-> FALSE, v |-> None, rest |-> <<>>]

ParseOk(v, rest) == [ok |-> TRUE, v |-> v, rest |-> rest]

\* d[key] = value on a dict under construction: a repeated key keeps its place
SetKey(pairs, key, value) ==
    IF \E i \in DOMAIN pairs : pairs[i][1] = key
    THEN [i \in DOMAIN pairs |-> IF pairs[i][1] = key THEN <<key, value>> ELSE pairs[i]]
    ELSE Append(pairs, <<key, value>>)

\* the JSON decoder: a value, the items of an array after "[" or ",", the
\* members of an object after "{" or ","
RECURSIVE ParseValue(_), ParseItems(_, _), ParseMembers(_, _)
ParseValue(toks) ==
    IF Len(toks) = 0 THEN ParseFail
    ELSE
      LET h == Head(toks)
      IN CASE h.k = "null" -> ParseOk(None, Tail(toks))
           [] h.k = "str" -> ParseOk(Str(h.s), Tail(toks))
           [] h.k = "num" -> ParseOk(Num(h.n), Tail(toks))
           [] h.k = "p" ->
                IF h.c = "["
                THEN IF Len(toks) >= 2 /\ IsP(toks[2], "]")
                     THEN ParseOk(List(<<>>), SubSeq(toks, 3, Len(toks)))
                     ELSE ParseItems(Tail(toks), <<>>)
                ELSE IF h.c = "{"
                THEN IF Len(toks) >= 2 /\ IsP(toks[2], "}")
                     THEN ParseOk(Dict(<<>>), SubSeq(toks, 3, Len(toks)))
                     ELSE ParseMembers(Tail(toks), <<>>)
                ELSE ParseFail
           [] OTHER -> ParseFail

ParseItems(toks, acc) ==
    LET r == ParseValue(toks)
    IN IF ~r.ok \/ Len(r.rest) = 0 THEN ParseFail
       ELSE IF IsP(Head(r.rest), ",") THEN ParseItems(Tail(r.rest), Append(acc, r.v))
       ELSE IF IsP(Head(r.rest), "]") THEN ParseOk(List(Append(acc, r.v)), Tail(r.rest))
       ELSE ParseFail

ParseMembers(toks, acc) ==
    IF Len(toks) < 2 \/ toks[1].k # "str" \/ ~IsP(toks[2], ":") THEN ParseFail
    ELSE
      LET r == ParseValue(SubSeq(toks, 3, Len(toks)))
      IN IF ~r.ok \/ Len(r.rest) = 0 THEN ParseFail
         ELSE IF IsP(Head(r.rest), ",")
              THEN ParseMembers(Tail(r.rest), SetKey(acc, toks[1].s, r.v))
         ELSE IF IsP(Head(r.rest), "}")
              THEN ParseOk(Dict(SetKey(acc, toks[1].s, r.v)), Tail(r.rest))
         ELSE ParseFail

Returned(v) == [kind |-> "return", error |-> "", value |-> v]

Raised(err) == [kind |-> "raise", error |-> err, value |-> None]

\* json.load(file) on an open file: the text is decoded as UTF-8, then parsed;
\* anything but one complete value is a JSONDecodeError
json_load(tokens) ==
    IF \E i \in DOMAIN tokens : tokens[i].k = "bad" THEN Raised("UnicodeDecodeError")
    ELSE LET r == ParseValue(tokens)
         IN IF r.ok /\ Len(r.rest) = 0 THEN Returned(r.v) ELSE Raised("JSONDecodeError")

\* app.py: if os.path.exists(...): try json.load except JSONDecodeError: []; else []
load_existing_recommendations(fl) ==
    IF fl.t = "absent" THEN Returned(List(<<>>))
    ELSE LET r == json_load(fl.tokens)
         IN IF r.kind = "raise" /\ r.error = "JSONDecodeError"
            THEN Returned(List(<<>>))
            ELSE r

\* app_ui.py: try open, json.load except (FileNotFoundError, JSONDecodeError): []
ui_load_existing_recommendations(fl) ==
    IF fl.t = "absent" THEN Returned(List(<<>>))
    ELSE LET r == json_load(fl.tokens)
         IN IF r.kind = "raise" /\ r.error \in {"FileNotFoundError", "JSONDecodeError"}
            THEN Returned(List(<<>>))
            ELSE r

\* {"query": query, "recommendations": recommendations}
Entry(query, recommendations) ==
    Dict(<< <<"query", Str(query)>>, <<"recommendations", recommendations>> >>)

\* data.append(entry): data must be a list
AppendEntry(data, entry) ==
    IF data.t = "list" THEN Returned(List(Append(data.v, entry)))
    ELSE Raised("AttributeError")

\* open(RECOMMENDATIONS_FILE, "w"): the file is created or cut to length 0
OpenTruncate(fl) == FileOf(<<>>)

\* mutant of WriteText: the text is written behind what the file holds
WriteTextAtEnd(fl, text) == FileOf(fl.tokens \o text)

\* the text is written from offset 0 of the open file
WriteText(fl, text) ==
    FileOf(text \o SubSeq(fl.tokens, Len(text) + 1, Len(fl.tokens)))

\* mutant of SaveLoaded: the loaded entries are dropped, the new one is written alone
SaveLoadedAlone(ld, fl, entry) ==
    IF ld.kind = "raise" THEN [raised |-> TRUE, error |-> ld.error, file |-> fl]
    ELSE [ raised |-> FALSE, error |-> "",
           file |-> WriteText(OpenTruncate(fl), Dump(List(<<entry>>))) ]

\* the rest of save_recommendations once load_existing_recommendations is done
SaveLoaded(ld, fl, entry) ==
    IF ld.kind = "raise" THEN [raised |-> TRUE, error |-> ld.error, file |-> fl]
    ELSE LET data == AppendEntry(ld.value, entry)
         IN IF data.kind = "raise"
            THEN [raised |-> TRUE, error |-> data.error, file |-> fl]
            ELSE [ raised |-> FALSE, error |-> "",
                   file |-> WriteText(OpenTruncate(fl), Dump(data.value)) ]

\* app.py:158-163
save_recommendations(fl, query, recommendations) ==
    SaveLoaded(load_existing_recommendations(fl), fl, Entry(query, recommendations))

\* app_ui.py:48-58
ui_save_recommendations(fl, query, recommendations) ==
    SaveLoaded(ui_load_existing_recommendations(fl), fl, Entry(query, recommendations))

(***************************************************************************)
(* The inputs of the history scenarios.                                    *)
(***************************************************************************)
\* a result record as the JSON object the history stores
ToJson(rec) ==
    Dict(<< <<"title", Str(rec.title)>>, <<"price", Num(rec.price)>>,
            <<"description", rec.description>>, <<"rate", Num(rec.rate)>>,
            <<"review_count", Num(rec.review_count)>> >>)

ProductTitled(title) == CHOOSE p \in Products : p.title = title

HistoryRecs ==
    { List(<<>>),
      List(<<ToJson(Project(ProductTitled("City Sneaker")))>>),
      List(<<ToJson(Project(ProductTitled("Mystery Box"))),
             ToJson(Project(ProductTitled("Trail Runner")))>>) }

HistoryEntries == { Entry(q, r) : q \in Queries, r \in HistoryRecs }

\* files a well-behaved earlier run has left: up to MaxPrior entries
PriorHistories ==
    UNION { [1..n -> HistoryEntries] : n \in 0..MaxPrior }

ValidFiles == {Absent} \cup { FileOf(Dump(List(h))) : h \in PriorHistories }

\* an empty file, a cut-off array, JSON that is no array, an array of something
\* else than entries, bytes that are no text
CorruptFiles ==
    { FileOf(<<>>),
      FileOf(<<P("["), P("{")>>),
      FileOf(<<P("{"), P("}")>>),
      FileOf(<<TNull>>),
      FileOf(<<TStr("history")>>),
      FileOf(<<P("["), TNum(1), P("]")>>),
      FileOf(<<TBad>>) }

NoLoad == [kind |-> "none", error |-> "", value |-> None]

NoHist ==
    [ start |-> Absent, saves |-> 0, op |-> "none", raised |-> FALSE,
      entry |-> None, loadedFirst |-> FALSE ]

NoWriter == [w \in {1, 2} |-> [pc |-> "off", data |-> None, entry |-> None]]

(***************************************************************************)
(* The operations on the history file, run one after the other.            *)
(***************************************************************************)
SaveStep(r, entry) ==
    /\ file' = r.file
    /\ saved' = IF r.raised THEN saved ELSE Append(saved, entry)
    /\ hist' = [hist EXCEPT !.saves = @ + 1, !.op = "save", !.raised = r.raised,
                            !.entry = entry]
    /\ loaded' = NoLoad
    /\ UNCHANGED <<engineVars, writer>>

AppSave ==
    /\ hist.saves < MaxSaves
    /\ \E q \in Queries, recs \in HistoryRecs :
         SaveStep(save_recommendations(file, q, recs), Entry(q, recs))

UiSave ==
    /\ hist.saves < MaxSaves
    /\ \E q \in Queries, recs \in HistoryRecs :
         SaveStep(ui_save_recommendations(file, q, recs), Entry(q, recs))

AppLoad ==
    /\ loaded' = load_existing_recommendations(file)
    /\ hist' = [hist EXCEPT !.op = "load"]
    /\ UNCHANGED <<engineVars, file, saved, writer>>

UiLoad ==
    /\ loaded' = ui_load_existing_recommendations(file)
    /\ hist' = [hist EXCEPT !.op = "load"]
    /\ UNCHANGED <<engineVars, file, saved, writer>>

(***************************************************************************)
(* Two save_recommendations calls running at the same time.  Each writer   *)
(* loads and appends (lines 160-161), opens the file for writing (162) and *)
(* writes its list (163).                                                  *)
(***************************************************************************)
Other(w) == 3 - w

WriterLoad(w) ==
    /\ writer[w].pc = "start"
    /\ \E ld \in {load_existing_recommendations(file), ui_load_existing_recommendations(file)} :
         LET data == IF ld.kind = "raise" THEN ld ELSE AppendEntry(ld.value, writer[w].entry)
         IN writer' = [writer EXCEPT
                         ![w].pc = IF data.kind = "raise" THEN "failed" ELSE "loaded",
                         ![w].data = data.value]
    /\ hist' = [hist EXCEPT !.loadedFirst = (writer[Other(w)].pc = "loaded")]
    /\ UNCHANGED <<engineVars, file, saved, loaded>>

WriterOpen(w) ==
    /\ writer[w].pc = "loaded"
    /\ file' = OpenTruncate(file)
    /\ writer' = [writer EXCEPT ![w].pc = "opened"]
    /\ UNCHANGED <<engineVars, saved, loaded, hist>>

WriterDump(w) ==
    /\ writer[w].pc = "opened"
    /\ file' = WriteText(file, Dump(writer[w].data))
    /\ writer' = [writer EXCEPT ![w].pc = "done"]
    /\ saved' = Append(saved, writer[w].entry)
    /\ UNCHANGED <<engineVars, loaded, hist>>

(***************************************************************************)
(* The specifications.                                                     *)
(***************************************************************************)
EngineInit ==
    /\ catalog \in Catalogs
    /\ df = LoadCatalog(catalog)
    /\ pc = "idle"
    /\ call = NoCall
    /\ engine = NoEngine
    /\ ret = NoRet
    /\ response = NoResponse

Init ==
    /\ EngineInit
    /\ file = Absent
    /\ saved = <<>>
    /\ loaded = NoLoad
    /\ hist = NoHist
    /\ writer = NoWriter

Next ==
    \/ CallRecommendProducts
    \/ CallRecommendWithFallback
    \/ recommend
    \/ home
    \/ Return

Spec == Init /\ [][Next]_vars

\* the history file on its own, with one reader or writer at a time
HistoryCatalog == <<ProductTitled("City Sneaker")>>

HistoryInit ==
    /\ catalog = HistoryCatalog
    /\ df = LoadCatalog(catalog)
    /\ pc = "idle"
    /\ call = NoCall
    /\ engine = NoEngine
    /\ ret = NoRet
    /\ response = NoResponse
    /\ file \in ValidFiles \cup CorruptFiles
    /\ saved = <<>>
    /\ loaded = NoLoad
    /\ hist = [NoHist EXCEPT !.start = file]
    /\ writer = NoWriter

HistoryNext ==
    \/ AppSave
    \/ UiSave
    \/ AppLoad
    \/ UiLoad

SpecHistory == HistoryInit /\ [][HistoryNext]_vars

\* two writers at once, on a file an earlier run has left in order
RaceInit ==
    /\ catalog = HistoryCatalog
    /\ df = LoadCatalog(catalog)
    /\ pc = "idle"
    /\ call = NoCall
    /\ engine = NoEngine
    /\ ret = NoRet
    /\ response = NoResponse
    /\ file \in ValidFiles
    /\ saved = <<>>
    /\ loaded = NoLoad
    /\ hist = [NoHist EXCEPT !.start = file]
    /\ \E e1, e2 \in HistoryEntries :
         writer = [w \in {1, 2} |->
                     [pc |-> "start", data |-> None, entry |-> IF w = 1 THEN e1 ELSE e2]]

RaceNext ==
    \E w \in {1, 2} :
      \/ WriterLoad(w)
      \/ WriterOpen(w)
      \/ WriterDump(w)

SpecRace == RaceInit /\ [][RaceNext]_vars

(***************************************************************************)
(* Properties of the engine and of the endpoint, checked under Spec.       *)
(***************************************************************************)
Done(fns) == pc = "done" /\ call.fn \in fns

Min(a, b) == IF a < b THEN a ELSE b

\* the catalog products as the result records show them
Shown == { Project(catalog[i]) : i \in DOMAIN catalog }

\* a is at least as popular as b: rating first, review_count on equal rating
AtLeastAsPopular(a, b) ==
    a.rate > b.rate \/ (a.rate = b.rate /\ a.review_count >= b.review_count)

\* value is a popularity top-n of the catalog
IsPopularTop(value, n) ==
    /\ Len(value) = Min(n, Len(catalog))
    /\ \A k \in DOMAIN value : value[k] \in Shown
    /\ \A j, k \in DOMAIN value : value[j] = value[k] => j = k
    /\ \A j, k \in DOMAIN value : j < k => AtLeastAsPopular(value[j], value[k])
    /\ \A x \in Shown \ Range(value) : \A k \in DOMAIN value : AtLeastAsPopular(value[k], x)

\* C1: whenever recommend_products raises or returns an empty list,
\* recommend_products_with_fallback returns the first top_n products of the
\* catalog by rating descending, review_count descending on equal rating, and
\* the same list for every query.
C1_FallbackIsPopularTop ==
    (Done({"recommend_products_with_fallback", "recommend"}) /\ engine.ran
       /\ (engine.out.raised \/ Len(engine.out.result) = 0))
    => /\ ret.kind = "return"
       /\ IsPopularTop(ret.value, call.top_n)
       /\ \A q \in Queries :
            \A r \in recommend_products_with_fallback(call.before, q, call.top_n,
                                                      call.extracted_info, call.embedOK) :
              r.fallback => r.value = ret.value

\* C1 witness: a fallback that had to order a tie on rating by review_count
\* and to cut the catalog to top_n.
C1_Witness ==
    /\ Done({"recommend_products_with_fallback"})
    /\ engine.out.raised
    /\ Len(catalog) > call.top_n
    /\ Len(ret.value) = 2
    /\ ret.value[1].rate = ret.value[2].rate
    /\ ret.value[1].review_count > ret.value[2].review_count
    /\ Project(catalog[1]) = ret.value[2]

\* C2: a failing or malformed intent extractor does not abort the pipeline:
\* recommend_products returns the whole catalog ranked by final score, and the
\* wrapper does not fall back to popularity.
C2_ExtractorFailureDegrades ==
    (pc = "done" /\ engine.ran /\ call.extracted_info.kind \in {"raise", "text"})
    => /\ ~engine.out.raised
       /\ Range(engine.out.candidates) = DOMAIN catalog
       /\ ~ret.fallback

\* C3: with a non-empty catalog and a non-empty query POST /recommend answers
\* with a non-empty recommendations list; the wrapper never raises, and an empty
\* list comes back only for an empty catalog.
C3_NeverNothing ==
    /\ (Done({"recommend"}) /\ call.body.t = "dict"
          /\ Truthy(Get(call.body, "query", Str(""))) /\ Len(catalog) > 0)
       => (response.status = 200 /\ Len(response.recommendations) > 0)
    /\ Done({"recommend_products_with_fallback"})
       => (ret.kind = "return" /\ (Len(ret.value) = 0 => Len(catalog) = 0))
    /\ (Done({"recommend"}) /\ response.status = 200)
       => (Len(response.recommendations) = 0 => Len(catalog) = 0)

\* C3 witness: the engine found no candidate for a request, and the response
\* still carries recommendations.
C3_Witness ==
    /\ Done({"recommend"})
    /\ engine.ran /\ ~engine.out.raised /\ Len(engine.out.result) = 0
    /\ Len(catalog) > 0
    /\ response.status = 200 /\ Len(response.recommendations) > 0

\* C4: POST /recommend answers every request whose query is empty or missing
\* with 400 and the error "No query provided", without calling the engine, and
\* every request with a non-empty query with 200, echoing the query with its
\* recommendations.
C4_EmptyQueryRejected ==
    Done({"recommend"})
    => IF call.body.t = "dict" /\ Truthy(Get(call.body, "query", Str("")))
       THEN /\ response.status = 200
            /\ response.query = Get(call.body, "query", Str(""))
            /\ response.recommendations = ret.value
       ELSE /\ response.status = 400
            /\ response.error = "No query provided"
            /\ ~engine.ran

\* C5: recommend_products returns at most top_n items, each a product of the
\* catalog, with final_score non-increasing along the returned list.
C5_RankedTopN ==
    (pc = "done" /\ engine.ran /\ ~engine.out.raised /\ Len(catalog) > 0)
    => LET out == engine.out
       IN /\ Len(out.result) <= call.top_n
          /\ Len(out.result) = Min(call.top_n, Len(out.candidates))
          /\ \A k \in DOMAIN out.result :
               /\ out.result[k] \in Shown
               /\ out.result[k] = Project(catalog[out.ranked[k]])
               /\ out.ranked[k] \in Range(out.candidates)
          /\ \A j, k \in DOMAIN out.result :
               j < k => out.final_score[out.ranked[j]] >= out.final_score[out.ranked[k]]

\* C5 witness: more candidates than top_n, with different scores, cut to top_n.
C5_Witness ==
    /\ Done({"recommend_products"})
    /\ ~engine.out.raised
    /\ Len(engine.out.candidates) > call.top_n
    /\ Len(engine.out.result) = 2
    /\ engine.out.final_score[engine.out.ranked[1]] > engine.out.final_score[engine.out.ranked[2]]
    /\ engine.out.ranked[1] > engine.out.ranked[2]

\* the category and budget the extractor's mapping constrains the candidates with
HasCategory(info) == info.category.t = "str" /\ info.category.s # ""

HasBudget(info) ==
    /\ info.budget.t = "list"
    /\ Len(info.budget.v) = 2
    /\ \A k \in 1..2 : info.budget.v[k].t = "num"

DeclaredCandidates(info) ==
    { i \in DOMAIN catalog :
        /\ HasCategory(info) => Lower(catalog[i].category) = Lower(info.category.s)
        /\ HasBudget(info) =>
             (info.budget.v[1].n <= catalog[i].price /\ catalog[i].price <= info.budget.v[2].n) }

\* C6: the candidates are exactly the products whose category equals the
\* extracted one ignoring case (when one was extracted) and whose price lies in
\* the extracted budget, bounds included (when a well-formed budget was
\* extracted); without either every product is a candidate, and an empty
\* candidate set gives an empty result, not an error.
C6_CandidateSet ==
    (pc = "done" /\ engine.ran /\ call.extracted_info.kind = "mapping")
    => LET info == call.extracted_info
           out == engine.out
       IN /\ out.filtered => Range(out.candidates) = DeclaredCandidates(info)
          /\ (out.filtered /\ ~HasCategory(info) /\ ~HasBudget(info))
               => Range(out.candidates) = DOMAIN catalog
          /\ (out.filtered /\ Len(out.candidates) = 0)
               => (~out.raised /\ out.result = <<>>)
          /\ (DeclaredCandidates(info) = {} /\ call.embedOK /\ info.category.t # "num"
                /\ (HasBudget(info) \/ ~BudgetApplies(info.budget)))
               => (out.filtered /\ ~out.raised /\ out.result = <<>>)

\* C6 witness: a category given in another case than the catalog's and a budget
\* whose upper bound is the price of a product, which is kept.
C6_Witness ==
    /\ Done({"recommend_products"})
    /\ engine.out.filtered
    /\ call.extracted_info.category = Str("Shoes")
    /\ HasBudget(call.extracted_info)
    /\ \E i \in Range(engine.out.candidates) :
         /\ catalog[i].category = "SHOES" \/ catalog[i].category = "shoes"
         /\ catalog[i].price = call.extracted_info.budget.v[1].n
    /\ \E i \in Range(engine.out.candidates) :
         catalog[i].price = call.extracted_info.budget.v[2].n
    /\ \E i \in DOMAIN catalog :
         /\ i \notin Range(engine.out.candidates)
         /\ catalog[i].price = call.extracted_info.budget.v[1].n - 1

Loaders(fl) == {load_existing_recommendations(fl), ui_load_existing_recommendations(fl)}

\* C7: starting from a missing file, after N save_recommendations calls in a
\* row load_existing_recommendations returns exactly the N saved entries in
\* the order they were saved; loading a missing file returns the empty list
\* and does not raise.
C7_HistoryRoundTrip ==
    /\ file.t = "absent" => \A ld \in Loaders(file) : ld = Returned(List(<<>>))
    /\ hist.start = Absent =>
         /\ \A ld \in Loaders(file) : ld = Returned(List(saved))
         /\ Len(saved) = hist.saves
         /\ hist.op = "save" => ~hist.raised
         /\ loaded.kind # "none" => loaded = Returned(List(saved))

\* C7 witness: two different entries saved to a file that did not exist, then
\* loaded back in that order.
C7_Witness ==
    /\ hist.start = Absent
    /\ Len(saved) = 2
    /\ saved[1] # saved[2]
    /\ Len(saved[1].v[2][2].v) = 2
    /\ loaded.kind = "return"
    /\ loaded.value.v = saved

\* C8: whatever the history file holds (nothing, text that is no JSON, JSON
\* that is no array of entries), load_existing_recommendations returns without
\* raising, and a following save_recommendations completes and leaves a file
\* that loads as a list ending with the new entry.
C8_CorruptHistoryIsEmpty ==
    /\ loaded.kind # "none" => loaded.kind = "return"
    /\ hist.op = "save" =>
         /\ ~hist.raised
         /\ \A ld \in Loaders(file) :
              /\ ld.kind = "return"
              /\ ld.value.t = "list"
              /\ Len(ld.value.v) > 0
              /\ ld.value.v[Len(ld.value.v)] = hist.entry

\* how often the tokens pat occur in text
Occ(text, pat) ==
    Cardinality({ i \in 1..(Len(text) - Len(pat) + 1) :
                    SubSeq(text, i, i + Len(pat) - 1) = pat })

\* the file the two writers started from
BaseTokens == IF hist.start.t = "absent" THEN <<>> ELSE hist.start.tokens

BaseEntries == load_existing_recommendations(hist.start).value.v

\* the copies of writer w's entry the file holds beyond those it started with
Added(w) == Occ(file.tokens, Dump(writer[w].entry)) - Occ(BaseTokens, Dump(writer[w].entry))

BothSavedAfterLoadingFirst ==
    hist.loadedFirst /\ writer[1].pc = "done" /\ writer[2].pc = "done"

\* C10: save_recommendations loads the file, appends and rewrites the file in
\* separate steps, and when two saves both load before either writes, the
\* final file holds the entry of only one of them: an entry whose save has
\* completed is lost.
C10_LostUpdate ==
    BothSavedAfterLoadingFirst
    => /\ Len(saved) = 2
       /\ IF writer[1].entry = writer[2].entry
          THEN Added(1) = 1
          ELSE \/ Added(1) = 1 /\ Added(2) = 0
               \/ Added(1) = 0 /\ Added(2) = 1
       /\ \A ld \in Loaders(file) :
            /\ ld.kind = "return"
            /\ Len(ld.value.v) <= Len(BaseEntries) + 1

\* C10 witness: both writers loaded a file with an earlier entry, both wrote,
\* and the file loads as the earlier entry and the entry of writer 2 alone.
C10_Witness ==
    /\ BothSavedAfterLoadingFirst
    /\ Len(BaseEntries) = 1
    /\ writer[1].entry # writer[2].entry
    /\ load_existing_recommendations(file) = Returned(List(Append(BaseEntries, writer[2].entry)))

=============================================================================
